---------------------------- MODULE Spec2Model ----------------------------
(***************************************************************************)
(* Order / payment lifecycle of the storefront backend.                    *)
(*                                                                         *)
(* The repository holds successive versions of the server file; the       *)
(* handlers modelled here are                                              *)
(*   v2  src/server/api/index.js, second server file (lines 322-945)      *)
(*   v3  src/unnamed/part_001                                              *)
(* `server` is the server file that runs.  A request is a slot of `slots`; *)
(* a handler step between two awaits is one action, so requests interleave *)
(* where the code awaits.  `resp` is the response being sent: the step     *)
(* after it, ResponseSent, clears it.                                      *)
(*                                                                         *)
(* Amounts are integers in units of 0.01 rupee.  Timestamps (Date.now(),   *)
(* new Date()) are values of the clock `now`.  A field that is undefined   *)
(* in the stored JSON is NoTime, NoStr or NoMoid.                          *)
(***************************************************************************)
EXTENDS Integers, Sequences, FiniteSets

VARIABLES server, now, orders, provider, slots, resp, confirmed, granted

\* The gateway client (PhonePeAPIService): its mode, its cached credential,
\* its calls in flight, and the token exchanges the provider has answered
VARIABLES production, accessToken, tokenExpiry, calls, exchanges

svcvars == <<production, accessToken, tokenExpiry, calls, exchanges>>

\* The Order model (orderSchema): a document in memory and its saved copy
VARIABLES doc, stored

docvars == <<doc, stored>>

vars == <<server, now, orders, provider, slots, resp, confirmed, granted, svcvars, docvars>>

----------------------------------------------------------------------------
(* Bounds of the model *)

MaxClock == 2

MaxOrders == 1

MaxReq == 2

\* orders in the store when create-order requests alone are handled
MaxBurst == 2

\* calls of the gateway client in flight at once
MaxCalls == 2

\* token exchanges the provider answers with a token
MaxExchanges == 2

\* the clock of the gateway client, in units of 100 s
MaxTime == 4

(* Program constants *)

\* validatePaymentRequest tolerates a difference of 0.01 (one unit here)
Epsilon == 1

\* validatePaymentData: customerPhone.length < 10 is rejected
MinPhoneLen == 10

\* signed URLs live for 60 seconds
expiresIn == 60

NoTime == 0

NoStr == "undefined"

NoMoid == <<>>

\* Math.floor(Math.random() * 9000 + 1000) yields 1000..9999; one of them
Nonces == {1000}

Products == {"P1", "P2"}

Moids == ((1..MaxClock) \X Nonces) \cup {<<t>> : t \in 1..MaxClock}

----------------------------------------------------------------------------
(* Request bodies of POST /api/phonepe/create-order *)

Item(id, price, quantity) == [id |-> id, price |-> price, quantity |-> quantity]

Body(name, phoneLen, items, total) ==
    [customerName |-> name, customerEmail |-> "a@b.in", phoneLen |-> phoneLen,
     orderItems |-> items, totalAmount |-> total]

\* the spec's scenario: one item 500.00 x 2, total 1000.00
BodyOk == Body("Asha", 10, <<Item("P1", 50000, 2)>>, 100000)

\* total differs from the sum of price x quantity
BodyMismatch == Body("Asha", 10, <<Item("P1", 50000, 2)>>, 100)

\* a phone the handler accepts (non-empty) and validatePaymentData rejects
BodyShortPhone == Body("Asha", 5, <<Item("P2", 25000, 1)>>, 25000)

BodyNoName == Body("", 10, <<Item("P1", 50000, 2)>>, 100000)

Bodies == {BodyOk, BodyMismatch, BodyShortPhone, BodyNoName}

RECURSIVE SumItems(_)
\* orderItems.reduce((sum, item) => sum + item.price * item.quantity, 0)
SumItems(items) ==
    IF items = <<>> THEN 0
    ELSE Head(items).price * Head(items).quantity + SumItems(Tail(items))

Abs(x) == IF x < 0 THEN -x ELSE x

\* validatePaymentRequest: TRUE when the middleware calls next(), FALSE when
\* it answers 400.  No route of the server files mounts it.
validatePaymentRequest(b) ==
    /\ b.customerName # ""
    /\ Len(b.orderItems) > 0
    /\ b.totalAmount > 0
    /\ b.totalAmount >= 100 /\ b.totalAmount <= 20000000
    /\ \A i \in 1..Len(b.orderItems) :
          b.orderItems[i].price > 0 /\ b.orderItems[i].quantity > 0
    /\ ~(Abs(SumItems(b.orderItems) - b.totalAmount) > Epsilon)

----------------------------------------------------------------------------
(* Records *)

NewPayment(tx, moid, amount) ==
    [transactionId |-> tx, merchantOrderId |-> moid, amount |-> amount,
     status |-> "pending", paymentUrl |-> NoStr, gatewayTransactionId |-> NoStr,
     paymentMethod |-> NoStr, paidAt |-> NoTime, failureReason |-> NoStr,
     lastCheckedAt |-> NoTime, verified_at |-> NoTime]

NoPayment == NewPayment(NoTime, NoMoid, 0)

IdleSlot == [kind |-> "idle", pc |-> "idle", oid |-> 0, pay |-> NoPayment,
             res |-> "none", verified |-> FALSE]

NoResp == [op |-> "none", code |-> 0, page |-> "none", oid |-> 0, pid |-> "none",
           cat |-> "none", error |-> "none", log |-> "none"]

\* a handler that ended without a response: its promise was rejected and
\* nothing caught it; the request stays open until the client gives up
Unanswered(op) ==
    [op |-> op, code |-> 0, page |-> "none", oid |-> 0, pid |-> "none", cat |-> "none",
     error |-> "none", log |-> "unhandled rejection"]

\* a response: the status code and, for a redirect, the page
Respond(op, code, page) ==
    [op |-> op, code |-> code, page |-> page, oid |-> 0, pid |-> "none", cat |-> "none",
     error |-> "none", log |-> "none"]

\* a redirect to a page with its ?error= parameter
RespondError(op, code, page, error) ==
    [op |-> op, code |-> code, page |-> page, oid |-> 0, pid |-> "none", cat |-> "none",
     error |-> error, log |-> "none"]

\* the answer of a download request for product pid: o the order it found,
\* cat what the catalogue and the storage held for pid ("none" in an answer
\* given before the order is found)
RespondDownload(op, code, o, pid, cat) ==
    [op |-> op, code |-> code, page |-> "json", oid |-> o, pid |-> pid, cat |-> cat,
     error |-> "none", log |-> "none"]

OrderIds == 1..Len(orders)

Slots == 1..MaxReq

TxIds == 1..MaxClock

\* slots are interchangeable: a request takes the first idle one
FreeSlot(s) ==
    /\ slots[s].kind = "idle"
    /\ \A r \in 1..(s - 1) : slots[r].kind # "idle"

----------------------------------------------------------------------------
(* Order store adapter *)

\* createOrder: insert, the store assigns the id
createOrder(payload) == Append(orders, payload)

\* the rows .contains("payment", {transactionId}) matches; .limit(1).single()
\* returns one of them, no order being given the store picks which
findOrderByTransactionId(tx) ==
    {o \in OrderIds : orders[o].payment.transactionId = tx}

\* an update that writes the whole row from the payment, the items lost
updateOrderPaymentByIdWholeRow(oid, payment) ==
    [orders EXCEPT ![oid] = [@ EXCEPT !.payment = payment, !.items = <<>>]]

\* updateOrderPaymentById: replaces the payment sub-record of one row
updateOrderPaymentById(oid, payment) ==
    [orders EXCEPT ![oid].payment = payment]

----------------------------------------------------------------------------
\* this.accessToken = null, this.tokenExpiry = null
NoToken == 0

\* no argument
NoArg == [kind |-> "none"]

\* a call of the gateway client that is not running
IdleCall ==
    [op |-> "idle", pc |-> "idle", arg |-> NoArg, tok |-> "none", exch |-> 0,
     reqs |-> 0, answer |-> "none", result |-> "none"]

\* no document of the Order model is loaded
NoDoc == [loaded |-> FALSE]

NoDocument == doc = NoDoc /\ stored = NoDoc

\* the gateway client after its constructor, nothing called yet
ServiceIdle ==
    /\ accessToken = NoToken
    /\ tokenExpiry = NoTime
    /\ calls = [c \in 1..MaxCalls |-> IdleCall]
    /\ exchanges = <<>>

Init ==
    /\ production = FALSE
    /\ ServiceIdle
    /\ NoDocument
    /\ server \in {"v2", "v3"}
    /\ now = 1
    /\ orders = <<>>
    /\ provider = [m \in Moids |-> "NONE"]
    /\ slots = [s \in Slots |-> IdleSlot]
    /\ resp = NoResp
    /\ confirmed = {}
    /\ granted = {}

\* time passes between two reads of the clock
Tick ==
    /\ resp = NoResp
    /\ now < MaxClock
    /\ now' = now + 1
    /\ UNCHANGED <<docvars, svcvars, server, orders, provider, slots, resp, confirmed, granted>>

\* the response has left
ResponseSent ==
    /\ resp # NoResp
    /\ resp' = NoResp
    /\ UNCHANGED <<docvars, svcvars, server, now, orders, provider, slots, confirmed, granted>>

----------------------------------------------------------------------------
(* Gateway client: src/server/services/phonepeService.js *)

\* String.prototype.trim, on the names of the model
trim(name) == IF name = "  " THEN "" ELSE name

\* validatePaymentData: throws unless amount > 0, phone length >= 10 and a
\* non-blank name
validatePaymentData(amount, phoneLen, name) ==
    /\ amount > 0
    /\ ~(phoneLen = 0 \/ phoneLen < MinPhoneLen)
    /\ trim(name) # ""

\* The outcomes of initiatePayment.  "invalid": validatePaymentData threw,
\* nothing was sent.  "error": no access token, a network error, a non-200
\* answer or a 200 answer without redirectUrl.  "timeout": the 30 s bound of
\* the pay request passed.  "ok": 200 with a redirectUrl.  Every one but
\* "ok" is returned as {success: false, error}.
initiatePaymentOutcomes(amount, phoneLen, name) ==
    IF validatePaymentData(amount, phoneLen, name)
    THEN {"ok", "error", "timeout"}
    ELSE {"invalid"}

\* getErrorMessage: the error text of a failed initiation, never empty
getErrorMessage(res) ==
    CASE res = "invalid" -> "Invalid phone number"
      [] res = "timeout" -> "timeout of 30000ms exceeded"
      [] OTHER -> "Unexpected API response"

\* The provider's order after a pay request: created by a request it
\* answered, possibly created by one whose answer timed out
providerAfterPay(moid, res, arrived) ==
    IF provider[moid] = "NONE" /\ (res = "ok" \/ (res = "timeout" /\ arrived))
    THEN [provider EXCEPT ![moid] = "CREATED"]
    ELSE provider

\* the customer has the checkout URL: the provider's order can be paid
providerAfterUrl(moid) ==
    IF provider[moid] = "CREATED"
    THEN [provider EXCEPT ![moid] = "PENDING"]
    ELSE provider

\* The customer pays, or the payment fails, on the provider's page; both
\* states are final at the provider
ProviderSettle(moid, state) ==
    /\ resp = NoResp
    /\ provider[moid] = "PENDING"
    /\ provider' = [provider EXCEPT ![moid] = state]
    /\ UNCHANGED <<docvars, svcvars, server, now, orders, slots, resp, confirmed, granted>>

\* checkPaymentStatus: what the provider's status answer says for an order
\* it knows; an order not yet paid or failed is PENDING
providerState(moid) ==
    IF provider[moid] \in {"CREATED", "PENDING"} THEN "PENDING" ELSE provider[moid]

\* checkPaymentStatus answers: it throws without a merchantOrderId, without
\* an access token, on a network error and on the provider's error answer
\* (an order the provider does not know)
checkPaymentStatusAnswers(moid, gwOk) ==
    gwOk /\ moid \in Moids /\ provider[moid] # "NONE"

----------------------------------------------------------------------------
(* POST /api/phonepe/create-order *)

OrderRow(b, tx, moid, productIds, moidColumn) ==
    [customer_name |-> b.customerName, phoneLen |-> b.phoneLen,
     items |-> b.orderItems, total_amount |-> b.totalAmount,
     product_id |-> productIds, merchant_order_id |-> moidColumn,
     payment |-> NewPayment(tx, moid, b.totalAmount)]

\* v2: the fields the handler requires
createOrderFieldsV2(b) ==
    b.customerName # "" /\ b.customerEmail # "" /\ b.phoneLen > 0 /\ b.totalAmount # 0

\* v3: the fields the handler requires
createOrderFieldsV3(b) ==
    b.customerName # "" /\ b.customerEmail # "" /\ b.phoneLen > 0 /\ Len(b.orderItems) > 0

ItemIds(items) == [i \in 1..Len(items) |-> items[i].id]

\* create-order as it would be were the gateway contacted before the insert
CreateOrderInsertLate(s, b, fieldsOk, row, storeOk, cap) ==
    /\ resp = NoResp
    /\ FreeSlot(s)
    /\ fieldsOk /\ storeOk
    /\ Len(orders) < cap
    /\ slots' = [slots EXCEPT ![s] =
            [kind |-> "create-order", pc |-> "initiate", oid |-> Len(orders) + 1,
             pay |-> row.payment, res |-> "none", verified |-> FALSE]]
    /\ UNCHANGED <<docvars, svcvars, server, now, orders, provider, resp, confirmed, granted>>

\* The step of create-order up to the await of initiatePayment: the field
\* check, the two ids, the insert.  cap is the number of orders the store
\* of the model takes.
CreateOrderInsert(s, b, fieldsOk, row, storeOk, cap) ==
    /\ resp = NoResp
    /\ FreeSlot(s)
    /\ IF ~fieldsOk
       THEN /\ resp' = Respond("create-order", 400, "json")
            /\ UNCHANGED <<orders, slots>>
       ELSE IF ~storeOk
       THEN /\ resp' = Respond("create-order", 500, "json")
            /\ UNCHANGED <<orders, slots>>
       ELSE /\ Len(orders) < cap
            /\ orders' = createOrder(row)
            /\ slots' = [slots EXCEPT ![s] =
                    [kind |-> "create-order", pc |-> "initiate", oid |-> Len(orders) + 1,
                     pay |-> row.payment, res |-> "none", verified |-> FALSE]]
            /\ UNCHANGED resp
    /\ UNCHANGED <<docvars, svcvars, server, now, provider, confirmed, granted>>

CreateOrderV2(s, b, nonce, storeOk, cap) ==
    /\ server = "v2"
    /\ CreateOrderInsert(s, b, createOrderFieldsV2(b),
                         OrderRow(b, now, <<now, nonce>>, <<>>, NoMoid), storeOk, cap)

CreateOrderV3(s, b, storeOk, cap) ==
    /\ server = "v3"
    /\ CreateOrderInsert(s, b, createOrderFieldsV3(b),
                         OrderRow(b, now, <<now>>, ItemIds(b.orderItems), <<now>>), storeOk,
                         cap)

\* await phonePeService.initiatePayment(...)
CreateOrderInitiate(s, res, arrived) ==
    /\ resp = NoResp
    /\ slots[s].pc = "initiate"
    /\ LET row == orders[slots[s].oid] IN
       res \in initiatePaymentOutcomes(slots[s].pay.amount, row.phoneLen, row.customer_name)
    /\ arrived => res = "timeout"
    /\ provider' = providerAfterPay(slots[s].pay.merchantOrderId, res, arrived)
    /\ slots' = [slots EXCEPT ![s].pc = "finish", ![s].res = res]
    /\ UNCHANGED <<docvars, svcvars, server, now, orders, resp, confirmed, granted>>

\* the final payment as it would be were failureReason left out
createOrderFinalPaymentNoReason(pay, res) ==
    IF res = "ok"
    THEN [pay EXCEPT !.paymentUrl = "url"]
    ELSE [pay EXCEPT !.status = "failed"]

\* the payment create-order writes once initiatePayment has returned
createOrderFinalPayment(pay, res) ==
    IF res = "ok"
    THEN [pay EXCEPT !.paymentUrl = "url"]
    ELSE [pay EXCEPT !.status = "failed", !.failureReason = getErrorMessage(res)]

\* The rest of create-order: the update from the copy of the order the insert
\* returned, and the response.
CreateOrderFinish(s, storeOk) ==
    /\ resp = NoResp
    /\ slots[s].pc = "finish"
    /\ IF storeOk
       THEN /\ orders' = updateOrderPaymentById(slots[s].oid,
                            createOrderFinalPayment(slots[s].pay, slots[s].res))
            /\ resp' = Respond("create-order", IF slots[s].res = "ok" THEN 200 ELSE 502, "json")
            /\ provider' = IF slots[s].res = "ok"
                           THEN providerAfterUrl(slots[s].pay.merchantOrderId)
                           ELSE provider
       ELSE /\ resp' = Respond("create-order", 500, "json")
            /\ UNCHANGED <<orders, provider>>
    /\ slots' = [slots EXCEPT ![s] = IdleSlot]
    /\ UNCHANGED <<docvars, svcvars, server, now, confirmed, granted>>

----------------------------------------------------------------------------
(* GET /api/phonepe/callback/:merchantTransactionId  (v2) *)

\* create-order makes the id TX_<t>
TxId(t) == [form |-> "TX_", n |-> t]

\* The ids a callback request can carry in its path: TX_<t>, and one id of
\* each other form: BBB_1, xBBB_1, x1
CallbackIds ==
    {TxId(t) : t \in TxIds} \cup {[form |-> f, n |-> 1] : f \in {"BBB_", "xBBB_", "x"}}

\* /^TX_|BBB_/.test(id): TX_ at the start of the id, or BBB_ anywhere in it
callbackIdAccepted(id) == id.form \in {"TX_", "BBB_", "xBBB_"}

\* findOrderByTransactionId(id): the stored ids are all of the form TX_<t>
findOrderByCallbackId(id) ==
    IF id.form = "TX_" THEN findOrderByTransactionId(id.n) ELSE {}

\* a handler without the catch: the throw reaches the default error handler
getCallbackCatchNone(message) ==
    [Respond("callback-get", 500, "text") EXCEPT !.log = message]

\* the catch of the handler: whatever is thrown inside it (by the store, by
\* checkPaymentStatus) is logged by its message and ends in this redirect
getCallbackCatch(message) ==
    [RespondError("callback-get", 302, "payment-error", "callback-failed")
        EXCEPT !.log = message]

\* the id is not of the form the handler accepts: redirect, nothing read
GetCallbackRejectId(id) ==
    /\ resp = NoResp
    /\ server = "v2"
    /\ ~callbackIdAccepted(id)
    /\ resp' = RespondError("callback-get", 302, "payment-error", "invalid-transaction")
    /\ UNCHANGED <<docvars, svcvars, server, now, orders, provider, slots, confirmed, granted>>

\* The handler up to its write: the lookup of the order and the status
\* check.  The two awaits are one step: the first reads the store only, the
\* second the provider only.
GetCallbackCheck(s, id, storeOk, gwOk) ==
    /\ resp = NoResp
    /\ server = "v2"
    /\ callbackIdAccepted(id)
    /\ FreeSlot(s)
    /\ IF ~storeOk
       THEN /\ resp' = getCallbackCatch("store error")
            /\ UNCHANGED <<slots, confirmed>>
       ELSE IF findOrderByCallbackId(id) = {}
       THEN /\ resp' = RespondError("callback-get", 302, "payment-error", "order-not-found")
            /\ UNCHANGED <<slots, confirmed>>
       ELSE \E o \in findOrderByCallbackId(id) :
            LET moid == orders[o].payment.merchantOrderId IN
               IF ~checkPaymentStatusAnswers(moid, gwOk)
               THEN /\ resp' = getCallbackCatch("Status check failed")
                    /\ UNCHANGED <<slots, confirmed>>
               ELSE /\ slots' = [slots EXCEPT ![s] =
                            [kind |-> "callback-get", pc |-> "write", oid |-> o,
                             pay |-> orders[o].payment, res |-> providerState(moid),
                             verified |-> TRUE]]
                    /\ confirmed' = IF providerState(moid) = "COMPLETED"
                                    THEN confirmed \cup {o} ELSE confirmed
                    /\ UNCHANGED resp
    /\ UNCHANGED <<docvars, svcvars, server, now, orders, provider, granted>>

\* the update as it would be were every state handled as PENDING is
getCallbackPaymentAlwaysPending(pay, state, t) ==
    [pay EXCEPT !.status = "pending", !.lastCheckedAt = t]

\* updateOrderStatus(updates): { ...order.payment, ...updates } per branch of
\* the switch on statusResponse.state
getCallbackPayment(pay, state, t) ==
    CASE state = "COMPLETED" ->
            [pay EXCEPT !.status = "completed", !.gatewayTransactionId = "gtx",
                        !.paymentMethod = "UPI", !.paidAt = t]
      [] state = "FAILED" ->
            [pay EXCEPT !.status = "failed", !.failureReason = "Payment failed"]
      [] OTHER ->
            [pay EXCEPT !.status = "pending", !.lastCheckedAt = t]

getCallbackPage(state) ==
    CASE state = "COMPLETED" -> "payment-success"
      [] state = "FAILED" -> "payment-failed"
      [] OTHER -> "payment-error"

\* the ?error= parameter of the redirect
getCallbackError(state) ==
    IF state \in {"COMPLETED", "FAILED"} THEN "none" ELSE "cancelled-or-timeout"

GetCallbackWrite(s, storeOk) ==
    /\ resp = NoResp
    /\ slots[s].pc = "write"
    /\ slots[s].kind = "callback-get"
    /\ IF storeOk
       THEN /\ orders' = updateOrderPaymentById(slots[s].oid,
                            getCallbackPayment(slots[s].pay, slots[s].res, now))
            /\ resp' = RespondError("callback-get", 302, getCallbackPage(slots[s].res),
                                    getCallbackError(slots[s].res))
       ELSE /\ resp' = getCallbackCatch("store error")
            /\ UNCHANGED orders
    /\ slots' = [slots EXCEPT ![s] = IdleSlot]
    /\ UNCHANGED <<docvars, svcvars, server, now, provider, confirmed, granted>>

----------------------------------------------------------------------------
(* POST /api/phonepe/callback  (v3) *)

CallbackCodes == {"PAYMENT_SUCCESS", "PAYMENT_FAILED", "PAYMENT_PENDING"}

\* no response field (400), or a response that is not base64 JSON with a data
\* object (the throw reaches the global error handler: 500)
PostCallbackReject(code) ==
    /\ resp = NoResp
    /\ server = "v3"
    /\ resp' = Respond("callback-post", code, "text")
    /\ UNCHANGED <<docvars, svcvars, server, now, orders, provider, slots, confirmed, granted>>

\* The handler up to its write: decode the body, look the order up.  The
\* body is whatever the sender put in it; nothing checks it.
PostCallbackFind(s, code, tx, storeOk) ==
    /\ resp = NoResp
    /\ server = "v3"
    /\ FreeSlot(s)
    /\ IF ~storeOk
       THEN /\ resp' = Respond("callback-post", 500, "text")
            /\ UNCHANGED slots
       ELSE IF findOrderByTransactionId(tx) = {}
       THEN /\ resp' = Respond("callback-post", 404, "text")
            /\ UNCHANGED slots
       ELSE \E o \in findOrderByTransactionId(tx) :
               IF code \in {"PAYMENT_SUCCESS", "PAYMENT_FAILED"}
               THEN /\ slots' = [slots EXCEPT ![s] =
                            [kind |-> "callback-post", pc |-> "write", oid |-> o,
                             pay |-> orders[o].payment, res |-> code,
                             verified |-> FALSE]]
                    /\ UNCHANGED resp
               ELSE /\ resp' = Respond("callback-post", 302, "payment-pending")
                    /\ UNCHANGED slots
    /\ UNCHANGED <<docvars, svcvars, server, now, orders, provider, confirmed, granted>>

\* the payment written for decoded.code; failureReason is decoded.message,
\* the text the sender chose, one text here
postCallbackPayment(pay, code, t) ==
    IF code = "PAYMENT_SUCCESS"
    THEN [pay EXCEPT !.status = "completed", !.gatewayTransactionId = "gtx", !.paidAt = t]
    ELSE [pay EXCEPT !.status = "failed", !.failureReason = "Payment failed"]

PostCallbackWrite(s, storeOk) ==
    /\ resp = NoResp
    /\ slots[s].pc = "write"
    /\ slots[s].kind = "callback-post"
    /\ IF storeOk
       THEN /\ orders' = updateOrderPaymentById(slots[s].oid,
                            postCallbackPayment(slots[s].pay, slots[s].res, now))
            /\ resp' = Respond("callback-post", 302,
                               IF slots[s].res = "PAYMENT_SUCCESS"
                               THEN "payment-success" ELSE "payment-failed")
       ELSE /\ resp' = Respond("callback-post", 500, "text")
            /\ UNCHANGED orders
    /\ slots' = [slots EXCEPT ![s] = IdleSlot]
    /\ UNCHANGED <<docvars, svcvars, server, now, provider, confirmed, granted>>

----------------------------------------------------------------------------
(* ALL /api/phonepe/callback/:orderId  (v3) *)

\* phonePeService.verifyPayment is not among the repository's files: an
\* authenticated status check whose success is the provider's COMPLETED
verifyPayment(moid) == provider[moid] = "COMPLETED"

\* { ...result.raw, status: "completed", verified_at }: the provider's answer
\* carries none of the fields of the stored payment but the amount
allCallbackPayment(pay, t) ==
    [NoPayment EXCEPT !.amount = pay.amount, !.status = "completed", !.verified_at = t]

\* the update is by .contains("payment", {merchantOrderId}) : every matching
\* row; its error is not looked at.  The handler is neither wrapped in
\* asyncHandler nor in a try: when the await of verifyPayment throws, the
\* handler's promise is rejected and nothing answers the request.
AllCallback(moid, gwOk) ==
    /\ resp = NoResp
    /\ server = "v3"
    /\ IF ~gwOk
       THEN /\ resp' = Unanswered("callback-all")
            /\ UNCHANGED <<orders, confirmed>>
       ELSE IF verifyPayment(moid)
       THEN /\ orders' = [o \in OrderIds |->
                    IF orders[o].payment.merchantOrderId = moid
                    THEN [orders[o] EXCEPT !.payment = allCallbackPayment(@, now)]
                    ELSE orders[o]]
            /\ confirmed' = confirmed \cup
                    {o \in OrderIds : orders[o].payment.merchantOrderId = moid}
            /\ resp' = Respond("callback-all", 302, "payment-success")
       ELSE /\ resp' = Respond("callback-all", 302, "payment-failed")
            /\ UNCHANGED <<orders, confirmed>>
    /\ UNCHANGED <<docvars, svcvars, server, now, provider, slots, granted>>

----------------------------------------------------------------------------
(* Download authorization *)

\* What the product catalogue and the storage hold for the product asked
\* for: the product row with a file, no row, a row without file_name, or a
\* file the storage cannot sign (or that is not on disk)
CatalogCases == {"ok", "no-product", "no-file", "no-storage"}

\* String(order.payment.status).toLowerCase() === "completed"
paymentCompleted(o) == orders[o].payment.status = "completed"

\* v2: items.some(it => String(it.productId || it.product_id || it.id) === pid),
\* else String(order.product_id) === pid: an array prints as its elements
\* joined by commas, so only a one-element array can equal a product id
productIncludedV2(o, pid) ==
    \/ \E i \in 1..Len(orders[o].items) : orders[o].items[i].id = pid
    \/ (Len(orders[o].product_id) = 1 /\ orders[o].product_id[1] = pid)

\* v3: items.some(it => String(it.id || it.productId || it.product_id) === pid)
productIncludedV3(o, pid) ==
    \E i \in 1..Len(orders[o].items) : orders[o].items[i].id = pid

\* the checks as they would be without the one on the order's items
downloadCodeAnyProduct(completed, included, cat) ==
    CASE ~completed -> 403
      [] cat = "no-product" -> 404
      [] cat = "no-file" -> 400
      [] cat = "no-storage" -> 500
      [] OTHER -> 200

\* the checks both signed-download handlers make once the order is found, in
\* the order they make them; 200 is the signed URL
downloadCode(completed, included, cat) ==
    CASE ~completed -> 403
      [] ~included -> 403
      [] cat = "no-product" -> 404
      [] cat = "no-file" -> 400
      [] cat = "no-storage" -> 500
      [] OTHER -> 200

\* GET /api/downloads/:productId : the same checks, then the file is
\* streamed; a file missing on disk is a 404
streamCode(completed, included, cat) ==
    CASE ~completed -> 403
      [] ~included -> 403
      [] cat = "no-product" -> 404
      [] cat = "no-file" -> 400
      [] cat = "no-storage" -> 404
      [] OTHER -> 200

\* the answer of a download request once the order o is found
DownloadAnswer(op, code, o, pid, cat) ==
    /\ resp' = RespondDownload(op, code, o, pid, cat)
    /\ granted' = IF code = 200 THEN granted \cup {o} ELSE granted

\* the query values of a download request: a transaction id, or none
\* (String(req.query.transactionId || "") is empty)
DownloadTxIds == TxIds \cup {NoTime}

\* a merchant order id, or none (String(req.query.orderId || "") is empty)
DownloadMoids == Moids \cup {NoMoid}

\* GET /api/signed-download/:productId?transactionId=  (v2)
SignedDownloadV2(pid, tx, cat, storeOk) ==
    /\ resp = NoResp
    /\ server = "v2"
    /\ IF tx = NoTime
       THEN resp' = RespondDownload("signed-download", 400, 0, pid, "none") /\ UNCHANGED granted
       ELSE IF ~storeOk
       THEN resp' = RespondDownload("signed-download", 500, 0, pid, "none") /\ UNCHANGED granted
       ELSE IF findOrderByTransactionId(tx) = {}
       THEN resp' = RespondDownload("signed-download", 404, 0, pid, "none") /\ UNCHANGED granted
       ELSE \E o \in findOrderByTransactionId(tx) :
               DownloadAnswer("signed-download",
                    downloadCode(paymentCompleted(o), productIncludedV2(o, pid), cat), o, pid, cat)
    /\ UNCHANGED <<docvars, svcvars, server, now, orders, provider, slots, confirmed>>

\* GET /api/downloads/:productId?transactionId=  (v2)
StreamDownload(pid, tx, cat, storeOk) ==
    /\ resp = NoResp
    /\ server = "v2"
    /\ IF tx = NoTime
       THEN resp' = RespondDownload("downloads", 400, 0, pid, "none") /\ UNCHANGED granted
       ELSE IF ~storeOk
       THEN resp' = RespondDownload("downloads", 500, 0, pid, "none") /\ UNCHANGED granted
       ELSE IF findOrderByTransactionId(tx) = {}
       THEN resp' = RespondDownload("downloads", 404, 0, pid, "none") /\ UNCHANGED granted
       ELSE \E o \in findOrderByTransactionId(tx) :
               DownloadAnswer("downloads",
                    streamCode(paymentCompleted(o), productIncludedV2(o, pid), cat), o, pid, cat)
    /\ UNCHANGED <<docvars, svcvars, server, now, orders, provider, slots, confirmed>>

\* .eq("merchant_order_id", orderId).single(): the row, when exactly one has it
findOrderByMerchantOrderId(moid) ==
    {o \in OrderIds : orders[o].merchant_order_id = moid}

\* GET /api/signed-download/:productId?orderId=  (v3)
SignedDownloadV3(pid, moid, cat, storeOk) ==
    /\ resp = NoResp
    /\ server = "v3"
    /\ IF moid = NoMoid
       THEN resp' = RespondDownload("signed-download", 400, 0, pid, "none") /\ UNCHANGED granted
       ELSE IF ~storeOk \/ Cardinality(findOrderByMerchantOrderId(moid)) # 1
       THEN resp' = RespondDownload("signed-download", 404, 0, pid, "none") /\ UNCHANGED granted
       ELSE \E o \in findOrderByMerchantOrderId(moid) :
               DownloadAnswer("signed-download",
                    downloadCode(paymentCompleted(o), productIncludedV3(o, pid), cat), o, pid, cat)
    /\ UNCHANGED <<docvars, svcvars, server, now, orders, provider, slots, confirmed>>

----------------------------------------------------------------------------
Next ==
    \/ Tick
    \/ ResponseSent
    \/ \E m \in Moids, st \in {"COMPLETED", "FAILED"} : ProviderSettle(m, st)
    \/ \E s \in Slots, b \in Bodies, n \in Nonces, ok \in BOOLEAN :
          CreateOrderV2(s, b, n, ok, MaxOrders)
    \/ \E s \in Slots, b \in Bodies, ok \in BOOLEAN : CreateOrderV3(s, b, ok, MaxOrders)
    \/ \E s \in Slots, res \in {"ok", "error", "timeout", "invalid"}, arrived \in BOOLEAN :
          CreateOrderInitiate(s, res, arrived)
    \/ \E s \in Slots, ok \in BOOLEAN : CreateOrderFinish(s, ok)
    \/ \E id \in CallbackIds : GetCallbackRejectId(id)
    \/ \E s \in Slots, id \in CallbackIds, ok \in BOOLEAN, gw \in BOOLEAN :
          GetCallbackCheck(s, id, ok, gw)
    \/ \E s \in Slots, ok \in BOOLEAN : GetCallbackWrite(s, ok)
    \/ \E code \in {400, 500} : PostCallbackReject(code)
    \/ \E s \in Slots, code \in CallbackCodes, tx \in TxIds, ok \in BOOLEAN :
          PostCallbackFind(s, code, tx, ok)
    \/ \E s \in Slots, ok \in BOOLEAN : PostCallbackWrite(s, ok)
    \/ \E m \in Moids, gw \in BOOLEAN : AllCallback(m, gw)
    \/ \E pid \in Products, tx \in DownloadTxIds, cat \in CatalogCases, ok \in BOOLEAN :
          SignedDownloadV2(pid, tx, cat, ok)
    \/ \E pid \in Products, tx \in DownloadTxIds, cat \in CatalogCases, ok \in BOOLEAN :
          StreamDownload(pid, tx, cat, ok)
    \/ \E pid \in Products, m \in DownloadMoids, cat \in CatalogCases, ok \in BOOLEAN :
          SignedDownloadV3(pid, m, cat, ok)

Spec == Init /\ [][Next]_vars

----------------------------------------------------------------------------
(* Steps of a request, as seen in a pair of states *)

\* slot s makes the write of its callback in this step
CallbackWriteStep(s) ==
    /\ slots[s].pc = "write"
    /\ slots[s].kind \in {"callback-get", "callback-post"}
    /\ slots'[s] = IdleSlot

\* slot s makes the last step of create-order in this step
CreateFinishStep(s) ==
    /\ slots[s].pc = "finish"
    /\ slots'[s] = IdleSlot

StatusOf(o) == orders[o].payment.status

\* the merchant order id an order was created with
OrderMoid(o) ==
    IF orders[o].merchant_order_id # NoMoid
    THEN orders[o].merchant_order_id
    ELSE orders[o].payment.merchantOrderId

HasItem(o, pid) == \E i \in 1..Len(orders[o].items) : orders[o].items[i].id = pid

----------------------------------------------------------------------------
(* C1: once an order's payment.status is 'completed', no later write of a  *)
(* callback (GET /api/phonepe/callback/:id, POST /api/phonepe/callback)    *)
(* sets it to 'pending' or 'failed'.                                       *)
C1_CompletedIsMonotonic ==
    [][\A s \in Slots :
          (CallbackWriteStep(s) /\ StatusOf(slots[s].oid) = "completed")
              => orders'[slots[s].oid].payment.status \notin {"pending", "failed"}]_vars

(* C2: a callback that finds the order as an earlier callback with the     *)
(* same terminal status left it (COMPLETED on an order completed with its  *)
(* paidAt, FAILED on an order failed with the callback's failureReason)    *)
(* leaves the stored payment record as it was, paidAt included.            *)
C2_DuplicateCallbackIsNoOp ==
    [][\A s \in Slots :
          ( /\ CallbackWriteStep(s)
            /\ slots[s].pay = orders[slots[s].oid].payment
            /\ \/ slots[s].res \in {"COMPLETED", "PAYMENT_SUCCESS"}
                    /\ StatusOf(slots[s].oid) = "completed"
                    /\ slots[s].pay.paidAt # NoTime
               \/ slots[s].res \in {"FAILED", "PAYMENT_FAILED"}
                    /\ StatusOf(slots[s].oid) = "failed"
                    /\ slots[s].pay.failureReason = "Payment failed" )
              => orders'[slots[s].oid].payment = orders[slots[s].oid].payment]_vars

(* C3: every write of a callback to an order is preceded, in the same      *)
(* request, by a successful verifyCallback or by a successful              *)
(* authenticated checkPaymentStatus.                                       *)
C3_CallbackWritesAreVerified ==
    [][\A s \in Slots :
          (CallbackWriteStep(s) /\ orders' # orders) => slots[s].verified]_vars

----------------------------------------------------------------------------
\* the response of a signed-download request that found its order
SignedDownloadFound == resp.op = "signed-download" /\ resp.oid # 0

(* C4 as written: a signed-download request is answered 403 when the       *)
(* order is not completed, 403 when it is completed without the product,   *)
(* and with the signed URL (200) when it is completed with the product.    *)
C4_DownloadAuthorization ==
    SignedDownloadFound =>
        LET completed == StatusOf(resp.oid) = "completed"
            has == HasItem(resp.oid, resp.pid)
        IN  /\ ~completed => resp.code = 403
            /\ (completed /\ ~has) => resp.code = 403
            /\ (completed /\ has) => resp.code = 200

(* C4 amended: 403 when the order is not completed, 403 when it is         *)
(* completed without the product; when it is completed with the product    *)
(* the signed URL (200) is returned if the product row exists, has a       *)
(* file_name and the storage signs it, and 404, 400 or 500 otherwise.      *)
C4_DownloadAuthorizationAmended ==
    SignedDownloadFound =>
        LET completed == StatusOf(resp.oid) = "completed"
            has == HasItem(resp.oid, resp.pid)
        IN  /\ ~completed => resp.code = 403
            /\ (completed /\ ~has) => resp.code = 403
            /\ (completed /\ has /\ resp.cat = "ok") => resp.code = 200
            /\ (completed /\ has /\ resp.cat = "no-product") => resp.code = 404
            /\ (completed /\ has /\ resp.cat = "no-file") => resp.code = 400
            /\ (completed /\ has /\ resp.cat = "no-storage") => resp.code = 500

\* a signed URL is returned for a completed order that holds the product
C4_Granted ==
    /\ SignedDownloadFound
    /\ resp.code = 200
    /\ StatusOf(resp.oid) = "completed"
    /\ HasItem(resp.oid, resp.pid)

(* C5: a download grant (signed URL or streamed file) is issued for an     *)
(* order only if the provider reported COMPLETED for it to an              *)
(* authenticated status check earlier.                                     *)
C5_GrantOnlyAfterProviderConfirmed == granted \subseteq confirmed

----------------------------------------------------------------------------
(* C6: create-order persists the order, pending, before initiatePayment is *)
(* called: whenever the gateway call is about to be made, has returned or  *)
(* has reached the provider, the order is in the store.                    *)
C6_PersistedBeforeGateway ==
    /\ \A s \in Slots :
          slots[s].pc \in {"initiate", "finish"}
              => /\ slots[s].oid \in OrderIds
                 /\ slots[s].pay.status = "pending"
                 /\ OrderMoid(slots[s].oid) = slots[s].pay.merchantOrderId
    /\ \A m \in Moids :
          provider[m] # "NONE" => \E o \in OrderIds : OrderMoid(o) = m

\* the gateway call of a create-order timed out, its order is in the store
C6_GatewayCalled ==
    \E s \in Slots :
        /\ slots[s].pc = "finish"
        /\ slots[s].res = "timeout"
        /\ slots[s].oid \in OrderIds

(* C7 as written: when initiatePayment reports failure, the order is       *)
(* updated to 'failed' with a failureReason, the client receives 502 and   *)
(* the order is kept.                                                      *)
C7_InitiationFailure ==
    [][\A s \in Slots :
          (CreateFinishStep(s) /\ slots[s].res # "ok")
              => /\ Len(orders') = Len(orders)
                 /\ orders'[slots[s].oid].payment.status = "failed"
                 /\ orders'[slots[s].oid].payment.failureReason # NoStr
                 /\ resp'.code = 502]_vars

(* C7 amended: when initiatePayment reports failure the order is kept and, *)
(* unless the store rejects the update, it is updated to 'failed' with a   *)
(* failureReason and the client receives 502; when the store rejects the   *)
(* update the order is left as it was and the client receives 500.         *)
C7_InitiationFailureAmended ==
    [][\A s \in Slots :
          (CreateFinishStep(s) /\ slots[s].res # "ok")
              => /\ Len(orders') = Len(orders)
                 /\ \/ /\ orders'[slots[s].oid].payment.status = "failed"
                       /\ orders'[slots[s].oid].payment.failureReason # NoStr
                       /\ resp'.code = 502
                    \/ /\ orders' = orders
                       /\ resp'.code = 500]_vars

\* a create-order whose initiation failed was answered 502, its order failed
C7_FailedOrderKept ==
    /\ resp.op = "create-order" /\ resp.code = 502
    /\ \E o \in OrderIds :
          StatusOf(o) = "failed" /\ orders[o].payment.failureReason # NoStr

(* C8: a gateway call that timed out never marks the order failed.         *)
C8_TimeoutLeavesOrderPending ==
    [][\A s \in Slots :
          (CreateFinishStep(s) /\ slots[s].res = "timeout")
              => orders'[slots[s].oid].payment.status # "failed"]_vars

(* C9: no order is persisted, and no gateway call made, for a create-order *)
(* request whose totalAmount differs from the sum of price x quantity of   *)
(* its items by more than 0.01.                                            *)
C9_TotalMismatchRejected ==
    \A o \in OrderIds :
        ~(Abs(SumItems(orders[o].items) - orders[o].total_amount) > Epsilon)

(* C10: in every stored order, payment.paidAt is set if and only if        *)
(* payment.status is 'completed'.                                          *)
C10_PaidAtIffCompleted ==
    \A o \in OrderIds :
        (orders[o].payment.paidAt # NoTime) <=> (StatusOf(o) = "completed")

----------------------------------------------------------------------------
(* C11: every request that writes an order's payment record (a callback,   *)
(* or create-order's paymentUrl / failed write) computes it from the       *)
(* record as it is stored at the moment of the write, never from a copy    *)
(* read before another request's update.                                   *)
C11_WritesFromLatestRead ==
    [][\A s \in Slots :
          ((CallbackWriteStep(s) \/ CreateFinishStep(s)) /\ orders' # orders)
              => slots[s].pay = orders[slots[s].oid].payment]_vars

----------------------------------------------------------------------------
(* The v2 server under fair processing of callbacks *)

InitV2 == Init /\ server = "v2"

NextV2 ==
    \/ Tick
    \/ ResponseSent
    \/ \E m \in Moids, st \in {"COMPLETED", "FAILED"} : ProviderSettle(m, st)
    \/ \E s \in Slots, b \in Bodies, n \in Nonces, ok \in BOOLEAN :
          CreateOrderV2(s, b, n, ok, MaxOrders)
    \/ \E s \in Slots, res \in {"ok", "error", "timeout", "invalid"}, arrived \in BOOLEAN :
          CreateOrderInitiate(s, res, arrived)
    \/ \E s \in Slots, ok \in BOOLEAN : CreateOrderFinish(s, ok)
    \/ \E id \in CallbackIds : GetCallbackRejectId(id)
    \/ \E s \in Slots, id \in CallbackIds, ok \in BOOLEAN, gw \in BOOLEAN :
          GetCallbackCheck(s, id, ok, gw)
    \/ \E s \in Slots, ok \in BOOLEAN : GetCallbackWrite(s, ok)
    \/ \E pid \in Products, tx \in DownloadTxIds, cat \in CatalogCases, ok \in BOOLEAN :
          SignedDownloadV2(pid, tx, cat, ok)
    \/ \E pid \in Products, tx \in DownloadTxIds, cat \in CatalogCases, ok \in BOOLEAN :
          StreamDownload(pid, tx, cat, ok)

\* a callback for order o arrives, finds it and gets the provider's answer
CallbackChecked(o) ==
    \E s \in Slots, tx \in TxIds :
        /\ GetCallbackCheck(s, TxId(tx), TRUE, TRUE)
        /\ slots'[s].pc = "write"
        /\ slots'[s].oid = o

\* a callback that has the provider's answer completes its write
CallbackWritten == \E s \in Slots : GetCallbackWrite(s, TRUE)

\* callbacks for every order keep being processed to completion
FairV2 ==
    /\ WF_vars(ResponseSent)
    /\ SF_vars(CallbackWritten)
    /\ \A o \in 1..MaxOrders : SF_vars(CallbackChecked(o))

LiveSpecV2 == InitV2 /\ [][NextV2]_vars /\ FairV2

\* the provider reports COMPLETED for order o
ProviderCompleted(o) ==
    o \in OrderIds /\ OrderMoid(o) \in Moids /\ provider[OrderMoid(o)] = "COMPLETED"

StoredCompleted(o) == o \in OrderIds /\ StatusOf(o) = "completed"

(* C12: once the provider reports COMPLETED for an order, and callbacks    *)
(* for it keep being processed to completion, the stored payment.status    *)
(* eventually is 'completed' and stays 'completed'.                        *)
C12_EventuallyCompleted ==
    \A o \in 1..MaxOrders : ProviderCompleted(o) ~> [] StoredCompleted(o)

\* the provider and the store both say completed
C12_Reconciled ==
    \E o \in OrderIds : ProviderCompleted(o) /\ StoredCompleted(o)

----------------------------------------------------------------------------
(* Gateway client: PhonePeAPIService, src/server/services/phonepeService.js *)
(* A call is a slot of `calls`; its steps are the stretches of the method  *)
(* between two awaits.  The clock `now` counts units of 100 s here.        *)

\* the early-refresh margin: expires_in - 300 (seconds), 3 units
RefreshMargin == 3

\* expires_in of the provider's answers: the margin itself, and more
ExpiresIns == {3, 5}

Calls == 1..MaxCalls

ordervars == <<server, orders, provider, slots, resp, confirmed, granted>>

\* a call that has just entered method op with argument arg
NewCall(op, arg) ==
    [op |-> op, pc |-> "start", arg |-> arg, tok |-> "none", exch |-> 0,
     reqs |-> 0, answer |-> "none", result |-> "none"]

FreeCall(c) ==
    /\ calls[c].op = "idle"
    /\ \A d \in 1..(c - 1) : calls[d].op # "idle"

ServiceInit ==
    /\ production \in BOOLEAN
    /\ ServiceIdle
    /\ NoDocument
    /\ server = "v2"
    /\ now = 1
    /\ orders = <<>>
    /\ provider = [m \in Moids |-> "NONE"]
    /\ slots = [s \in Slots |-> IdleSlot]
    /\ resp = NoResp
    /\ confirmed = {}
    /\ granted = {}

\* a finished call hands its result to its caller before anything else runs
NoneDone == \A c \in Calls : calls[c].pc # "done"

ServiceTick ==
    /\ NoneDone
    /\ now < MaxTime
    /\ now' = now + 1
    /\ UNCHANGED <<svcvars, ordervars, docvars>>

\* getAccessToken, first line: the cached token is returned while
\* this.accessToken && Date.now() < this.tokenExpiry
cacheValid == accessToken # NoToken /\ now < tokenExpiry

\* the expiry without the early-refresh margin
tokenExpiryNoMargin(t, e) == t + e

\* this.tokenExpiry = Date.now() + (res.data.expires_in - 300) * 1000
tokenExpiryAfter(t, e) == t + (e - RefreshMargin)

\* a store that takes the new token and leaves the expiry of the old one
cacheAfterExchangeTokenOnly(token, t, e) ==
    [accessToken |-> token, tokenExpiry |-> tokenExpiry]

\* the two assignments after a successful exchange; no await between them
cacheAfterExchange(token, t, e) ==
    [accessToken |-> token, tokenExpiry |-> tokenExpiryAfter(t, e)]

\* a failed exchange throws before the two assignments: the cache is as it was
cacheAfterFailure == [accessToken |-> accessToken, tokenExpiry |-> tokenExpiry]

\* a failed exchange that is swallowed in every mode
exchangeFailureSwallowed(prod) == "null"

\* the catch of getAccessToken: null outside production, rethrown in it
exchangeFailure(prod) == IF prod THEN "thrown" ELSE "null"

\* The call of getAccessToken inside method call c: the cached token and,
\* with it, the method's own request to the provider; or the exchange
\* request, whose answer the call awaits.
GetAccessToken(c, call) ==
    IF cacheValid
    THEN calls' = [calls EXCEPT ![c] =
            [call EXCEPT !.pc = "request", !.tok = "cached", !.reqs = @ + 1]]
    ELSE calls' = [calls EXCEPT ![c] =
            [call EXCEPT !.pc = "exchange", !.exch = @ + 1]]

\* what a method does with a credential it did not get: initiatePayment
\* catches (its own throw on null included), checkPaymentStatus rethrows
withoutToken(op) ==
    IF op = "initiatePayment" THEN "failure" ELSE "thrown"

\* a method that goes on to its request with the null getAccessToken returned
tokenNotRequired(call, tok) ==
    IF tok = "null"
    THEN [call EXCEPT !.pc = "request", !.tok = tok, !.reqs = @ + 1]
    ELSE [call EXCEPT !.pc = "done", !.tok = tok, !.result = withoutToken(call.op)]

\* a method whose getAccessToken returned null or threw: the method's
\* `if (!accessToken) throw`, or the exception, ends it before its request
tokenRequired(call, tok) ==
    [call EXCEPT !.pc = "done", !.tok = tok, !.result = withoutToken(call.op)]

\* The provider answers the exchange of call c: a token with expires_in e,
\* an answer without access_token, or no answer (network error).
ExchangeAnswer(c, ok, e) ==
    /\ NoneDone
    /\ calls[c].pc = "exchange"
    /\ IF ok
       THEN /\ Len(exchanges) < MaxExchanges
            /\ LET cache == cacheAfterExchange(Len(exchanges) + 1, now, e)
               IN  /\ accessToken' = cache.accessToken
                   /\ tokenExpiry' = cache.tokenExpiry
            /\ exchanges' = Append(exchanges,
                    [token |-> Len(exchanges) + 1, at |-> now, expires_in |-> e])
            /\ calls' = [calls EXCEPT ![c].pc = "request", ![c].tok = "fresh",
                                      ![c].reqs = @ + 1]
       ELSE /\ calls' = [calls EXCEPT ![c] =
                        tokenRequired(calls[c], exchangeFailure(production))]
            /\ accessToken' = cacheAfterFailure.accessToken
            /\ tokenExpiry' = cacheAfterFailure.tokenExpiry
            /\ UNCHANGED exchanges
    /\ UNCHANGED <<production, now, ordervars, docvars>>

\* paymentData of initiatePayment: amount in units of 0.01 rupee (0 also
\* stands for a missing amount), the length of customerPhone, customerName
PayArg(amount, phoneLen, name) ==
    [kind |-> "pay", amount |-> amount, phoneLen |-> phoneLen, name |-> name]

PayArgs ==
    {PayArg(100000, 10, "Asha"), PayArg(0, 10, "Asha"), PayArg(100000, 9, "Asha"),
     PayArg(100000, 10, ""), PayArg(100000, 10, "  ")}

payArgValid(arg) == validatePaymentData(arg.amount, arg.phoneLen, arg.name)

\* the step every method ends with once its result is known
Finish(c, call, result) ==
    calls' = [calls EXCEPT ![c] = [call EXCEPT !.pc = "done", !.result = result]]

\* initiatePayment as it would be with the credential fetched before the
\* validation
InitiatePaymentTokenFirst(c, arg) ==
    /\ NoneDone
    /\ FreeCall(c)
    /\ GetAccessToken(c, NewCall("initiatePayment", arg))
    /\ UNCHANGED <<production, accessToken, tokenExpiry, exchanges, now, ordervars, docvars>>

\* initiatePayment up to its first await: validatePaymentData throws into
\* the catch, or getAccessToken is called
InitiatePayment(c, arg) ==
    /\ NoneDone
    /\ FreeCall(c)
    /\ IF ~payArgValid(arg)
       THEN Finish(c, NewCall("initiatePayment", arg), "failure")
       ELSE GetAccessToken(c, NewCall("initiatePayment", arg))
    /\ UNCHANGED <<production, accessToken, tokenExpiry, exchanges, now, ordervars, docvars>>

\* the answers of POST /checkout/v2/pay: 200 with a redirectUrl, 200 without,
\* another status, no answer, no answer within 30 s
PayAnswers == {"redirect", "no-redirect", "non-200", "network", "timeout"}

\* success for every 200
initiatePaymentResultAny200(answer) ==
    IF answer \in {"redirect", "no-redirect"} THEN "success" ELSE "failure"

\* {success: true, paymentUrl, ...} for a 200 with a redirectUrl; every
\* other answer throws into the catch: {success: false, error, debug}
initiatePaymentResult(answer) ==
    IF answer = "redirect" THEN "success" ELSE "failure"

PayAnswer(c, answer) ==
    /\ NoneDone
    /\ calls[c].op = "initiatePayment"
    /\ calls[c].pc = "request"
    /\ Finish(c, [calls[c] EXCEPT !.answer = answer], initiatePaymentResult(answer))
    /\ UNCHANGED <<production, accessToken, tokenExpiry, exchanges, now, ordervars, docvars>>

StatusArg(moid) == [kind |-> "status", merchantOrderId |-> moid]

\* checkPaymentStatus up to its first await: the throw on a missing
\* merchantOrderId, or getAccessToken
CheckPaymentStatus(c, moid) ==
    /\ NoneDone
    /\ FreeCall(c)
    /\ IF moid = NoMoid
       THEN Finish(c, NewCall("checkPaymentStatus", StatusArg(moid)), "thrown")
       ELSE GetAccessToken(c, NewCall("checkPaymentStatus", StatusArg(moid)))
    /\ UNCHANGED <<production, accessToken, tokenExpiry, exchanges, now, ordervars, docvars>>

\* the answers of GET /checkout/v2/order/:id/status: the order's state, an
\* error answer, no answer
StatusAnswers == {"data", "error", "network"}

\* a status request that is sent again when it fails
StatusAnswerRetry(c, answer) ==
    /\ NoneDone
    /\ calls[c].op = "checkPaymentStatus"
    /\ calls[c].pc = "request"
    /\ IF answer = "data"
       THEN Finish(c, [calls[c] EXCEPT !.answer = answer], "data")
       ELSE calls' = [calls EXCEPT ![c].answer = answer, ![c].reqs = @ + 1]
    /\ calls[c].reqs < 3
    /\ UNCHANGED <<production, accessToken, tokenExpiry, exchanges, now, ordervars, docvars>>

\* the rest of checkPaymentStatus: response.data returned, or the catch
\* throws 'Status check failed'
StatusAnswer(c, answer) ==
    /\ NoneDone
    /\ calls[c].op = "checkPaymentStatus"
    /\ calls[c].pc = "request"
    /\ Finish(c, [calls[c] EXCEPT !.answer = answer],
              IF answer = "data" THEN "data" ELSE "thrown")
    /\ UNCHANGED <<production, accessToken, tokenExpiry, exchanges, now, ordervars, docvars>>

\* the caller has the result of the call
Return(c) ==
    /\ calls[c].pc = "done"
    /\ calls' = [calls EXCEPT ![c] = IdleCall]
    /\ UNCHANGED <<production, accessToken, tokenExpiry, exchanges, now, ordervars, docvars>>

----------------------------------------------------------------------------
(* verifyCallback *)

\* this.saltKey, and a key that is not it
SaltKey == "96434309-7796-489d-8924-ab56988a6076"

OtherKey == "00000000-0000-0000-0000-000000000000"

\* this.saltIndex, and an index that is not it
SaltIndex == "1"

OtherIndex == "2"

\* crypto.createHash("sha256").update(x).digest("hex"): a function of x
\* without collisions on the inputs of the model
sha256(x) == <<"sha256", x>>

\* hex + "###" + index
Checksum(response, key, index) ==
    [hex |-> sha256(<<response, key>>), index |-> index]

\* a checksum that is undefined or empty
NoChecksum == [hex |-> <<>>, index |-> ""]

\* response: absent, base64 of '{}', base64 of 'no'
Responses == {"", "e30=", "bm8="}

\* none, the right one of each response, one made with another key, one
\* with another index
Checksums ==
    {NoChecksum, Checksum("e30=", SaltKey, SaltIndex), Checksum("bm8=", SaltKey, SaltIndex),
     Checksum("e30=", OtherKey, SaltIndex), Checksum("e30=", SaltKey, OtherIndex)}

\* Buffer.from(response, "base64").toString("utf8")
base64Decode(response) ==
    CASE response = "e30=" -> "{}"
      [] response = "bm8=" -> "no"
      [] OTHER -> ""

\* JSON.parse returns for '{}' and throws a SyntaxError for 'no' and ''
jsonParses(text) == text = "{}"

CallbackArg(response, checksum) ==
    [kind |-> "callback", response |-> response, checksum |-> checksum]

\* a comparison of the hash alone, the salt index left out
verifyCallbackHashOnly(response, checksum) ==
    IF response = "" \/ checksum = NoChecksum
    THEN [result |-> "invalid", answer |-> "none"]
    ELSE IF checksum.hex # Checksum(response, SaltKey, SaltIndex).hex
    THEN [result |-> "invalid", answer |-> "none"]
    ELSE IF jsonParses(base64Decode(response))
    THEN [result |-> "valid", answer |-> "decoded"]
    ELSE [result |-> "thrown", answer |-> "parse-error"]

\* a parse error that is caught and answered as a mismatch is
verifyCallbackParseCaught(response, checksum) ==
    IF response = "" \/ checksum = NoChecksum
    THEN [result |-> "invalid", answer |-> "none"]
    ELSE IF checksum # Checksum(response, SaltKey, SaltIndex)
    THEN [result |-> "invalid", answer |-> "none"]
    ELSE IF jsonParses(base64Decode(response))
    THEN [result |-> "valid", answer |-> "decoded"]
    ELSE [result |-> "invalid", answer |-> "none"]

\* verifyCallback: {isValid: false} on a missing input or a mismatch,
\* {isValid: true, data} after JSON.parse, whose SyntaxError is not caught
verifyCallback(response, checksum) ==
    IF response = "" \/ checksum = NoChecksum
    THEN [result |-> "invalid", answer |-> "none"]
    ELSE IF checksum # Checksum(response, SaltKey, SaltIndex)
    THEN [result |-> "invalid", answer |-> "none"]
    ELSE IF jsonParses(base64Decode(response))
    THEN [result |-> "valid", answer |-> "decoded"]
    ELSE [result |-> "thrown", answer |-> "parse-error"]

\* verifyCallback has no await: one step
VerifyCallback(c, response, checksum) ==
    /\ NoneDone
    /\ FreeCall(c)
    /\ LET v == verifyCallback(response, checksum)
       IN  Finish(c, [NewCall("verifyCallback", CallbackArg(response, checksum))
                        EXCEPT !.answer = v.answer], v.result)
    /\ UNCHANGED <<production, accessToken, tokenExpiry, exchanges, now, ordervars, docvars>>

----------------------------------------------------------------------------
ServiceNext ==
    \/ ServiceTick
    \/ \E c \in Calls, arg \in PayArgs : InitiatePayment(c, arg)
    \/ \E c \in Calls, moid \in {NoMoid, <<1, 1000>>} : CheckPaymentStatus(c, moid)
    \/ \E c \in Calls, ok \in BOOLEAN, e \in ExpiresIns : ExchangeAnswer(c, ok, e)
    \/ \E c \in Calls, answer \in PayAnswers : PayAnswer(c, answer)
    \/ \E c \in Calls, answer \in StatusAnswers : StatusAnswer(c, answer)
    \/ \E c \in Calls, r \in Responses, k \in Checksums : VerifyCallback(c, r, k)
    \/ \E c \in Calls : Return(c)

ServiceSpec == ServiceInit /\ [][ServiceNext]_vars

----------------------------------------------------------------------------
(* Steps and states of a call of the gateway client *)

\* call c enters initiatePayment or checkPaymentStatus in this step and
\* reaches its call of getAccessToken
TokenAsked(c) ==
    /\ calls[c].op = "idle"
    /\ calls'[c].op \in {"initiatePayment", "checkPaymentStatus"}
    /\ calls'[c].pc \in {"request", "exchange"}

\* the exchange that was answered last, and the instant its token expires
LastExchange == exchanges[Len(exchanges)]

ExpiryOf(x) == x.at + (x.expires_in - RefreshMargin)

Finished(c, op) == calls[c].op = op /\ calls[c].pc = "done"

(* C13: after the successful exchange at time t that returned              *)
(* expires_in = E, a getAccessToken call earlier than t + (E - 300 s)      *)
(* returns the cached token and sends nothing to the provider; a call at   *)
(* or after that instant sends a new exchange.                             *)
C13_TokenCachedUntilExpiry ==
    [][\A c \in Calls :
          (TokenAsked(c) /\ exchanges # <<>>)
              => IF now < ExpiryOf(LastExchange)
                 THEN calls'[c].tok = "cached" /\ calls'[c].exch = 0
                 ELSE calls'[c].pc = "exchange" /\ calls'[c].exch = 1]_vars

\* a call got the cached token of an earlier exchange
C13_CacheHit ==
    \E c \in Calls : calls[c].tok = "cached" /\ exchanges # <<>>

(* C14: callers that find the credential absent or expired coalesce on     *)
(* one refresh: at most one token exchange is in flight at any time.       *)
C14_SingleExchangeInFlight ==
    Cardinality({c \in Calls : calls[c].pc = "exchange"}) <= 1

(* C15: the cached token and the cached expiry always belong together:     *)
(* the expiry is the one stored with the token in the cache, in every      *)
(* state a caller can read.                                                *)
C15_CredentialNeverHalfUpdated ==
    IF accessToken = NoToken
    THEN tokenExpiry = NoTime
    ELSE /\ accessToken \in 1..Len(exchanges)
         /\ tokenExpiry = ExpiryOf(exchanges[accessToken])

\* the cache holds the token of a second exchange
C15_CredentialReplaced == accessToken = 2 /\ Len(exchanges) = 2

(* C16: a failed exchange makes getAccessToken return null outside         *)
(* production, and raise in production.                                    *)
C16_ExchangeFailureByMode ==
    [][\A c \in Calls :
          (calls[c].pc = "exchange" /\ calls'[c].pc = "done")
              => calls'[c].tok = (IF production THEN "thrown" ELSE "null")]_vars

\* an exchange failed in production
C16_ExchangeFailedInProduction ==
    \E c \in Calls : production /\ calls[c].pc = "done" /\ calls[c].tok = "thrown"

(* C17: initiatePayment with an amount that is missing or <= 0, a phone    *)
(* shorter than 10 characters or an empty or blank name returns a failure, *)
(* sends no token exchange and no pay request and leaves the cached        *)
(* credential as it was.                                                   *)
C17_ValidationBeforeNetwork ==
    [][\A c \in Calls :
          ( /\ calls[c].op = "idle"
            /\ calls'[c].op = "initiatePayment"
            /\ \/ calls'[c].arg.amount <= 0
               \/ calls'[c].arg.phoneLen < MinPhoneLen
               \/ calls'[c].arg.name \in {"", "  "} )
              => /\ calls'[c].pc = "done"
                 /\ calls'[c].result = "failure"
                 /\ calls'[c].exch = 0
                 /\ calls'[c].reqs = 0
                 /\ accessToken' = accessToken
                 /\ tokenExpiry' = tokenExpiry
                 /\ exchanges' = exchanges]_vars

\* initiatePayment has answered a blank customerName
C17_BlankNameRejected ==
    \E c \in Calls :
        /\ Finished(c, "initiatePayment")
        /\ calls[c].arg.name = "  "
        /\ calls[c].result = "failure"

(* C18: initiatePayment always returns: {success: true} for a 200 answer   *)
(* with a redirect URL, {success: false} in every other case; it never     *)
(* throws.                                                                 *)
C18_InitiatePaymentNeverThrows ==
    \A c \in Calls :
        Finished(c, "initiatePayment")
            => /\ calls[c].result \in {"success", "failure"}
               /\ calls[c].result = "success" <=> calls[c].answer = "redirect"

\* the exchange threw in production and initiatePayment returned a failure
C18_TokenFailureCaught ==
    \E c \in Calls :
        /\ Finished(c, "initiatePayment")
        /\ calls[c].tok = "thrown"
        /\ calls[c].result = "failure"

(* C19: checkPaymentStatus sends at most one status request per call;      *)
(* without a merchantOrderId or without a credential it fails and sends    *)
(* none; when its request fails it fails.                                  *)
C19_StatusCheckedOnce ==
    \A c \in Calls :
        calls[c].op = "checkPaymentStatus"
            => /\ calls[c].reqs <= 1
               /\ ( /\ calls[c].pc = "done"
                    /\ \/ calls[c].arg.merchantOrderId = NoMoid
                       \/ calls[c].tok \in {"null", "thrown"} )
                      => calls[c].reqs = 0 /\ calls[c].result = "thrown"
               /\ (calls[c].pc = "done" /\ calls[c].answer \in {"error", "network"})
                      => calls[c].reqs = 1 /\ calls[c].result = "thrown"

\* a status request got no answer: one request, a failure
C19_StatusRequestFailed ==
    \E c \in Calls :
        /\ Finished(c, "checkPaymentStatus")
        /\ calls[c].answer = "network"
        /\ calls[c].reqs = 1

\* response and checksum are present and the checksum is the expected one
ChecksumMatches(arg) ==
    /\ arg.response # ""
    /\ arg.checksum # NoChecksum
    /\ arg.checksum = Checksum(arg.response, SaltKey, SaltIndex)

(* C20 as written: verifyCallback returns isValid = true exactly when      *)
(* response and checksum are present and the checksum is                   *)
(* sha256(response + saltKey) '###' saltIndex; for every other input it    *)
(* returns isValid = false and does not decode the payload.                *)
C20_VerifyCallback ==
    \A c \in Calls :
        Finished(c, "verifyCallback")
            => /\ calls[c].result = "valid" <=> ChecksumMatches(calls[c].arg)
               /\ ~ChecksumMatches(calls[c].arg)
                      => calls[c].result = "invalid" /\ calls[c].answer = "none"

(* C20 amended: verifyCallback returns isValid = true exactly when         *)
(* response and checksum are present, the checksum is the expected one and *)
(* the response decodes to JSON; with the expected checksum and a response *)
(* that does not decode it throws; for every other input it returns        *)
(* isValid = false and does not decode the payload.                        *)
C20_VerifyCallbackAmended ==
    \A c \in Calls :
        Finished(c, "verifyCallback")
            => LET arg == calls[c].arg
                   decodes == jsonParses(base64Decode(arg.response))
               IN  /\ calls[c].result = "valid" <=> (ChecksumMatches(arg) /\ decodes)
                   /\ (ChecksumMatches(arg) /\ ~decodes) => calls[c].result = "thrown"
                   /\ ~ChecksumMatches(arg)
                          => calls[c].result = "invalid" /\ calls[c].answer = "none"

\* a callback with the expected checksum was accepted
C20_Accepted ==
    \E c \in Calls :
        /\ Finished(c, "verifyCallback")
        /\ ChecksumMatches(calls[c].arg)
        /\ calls[c].result = "valid"

----------------------------------------------------------------------------
(* C21: a payload with the expected checksum that does not decode (base64, *)
(* then JSON) ends verifyCallback in a decode error: the outcome is not    *)
(* {isValid: true} and is not the outcome of a checksum mismatch.          *)
C21_DecodeErrorIsDistinct ==
    \A c \in Calls :
        ( /\ Finished(c, "verifyCallback")
          /\ ChecksumMatches(calls[c].arg)
          /\ ~jsonParses(base64Decode(calls[c].arg.response)) )
            => LET arg == calls[c].arg
                   mismatch == verifyCallback(arg.response,
                                              Checksum(arg.response, OtherKey, SaltIndex))
               IN  /\ calls[c].result # "valid"
                   /\ calls[c].result # mismatch.result
                   /\ calls[c].answer = "parse-error"

\* verifyCallback met the expected checksum on a payload that is not JSON
C21_DecodeFailed ==
    \E c \in Calls :
        /\ Finished(c, "verifyCallback")
        /\ ChecksumMatches(calls[c].arg)
        /\ calls[c].result = "thrown"

----------------------------------------------------------------------------
\* the status the table gives for a provider state; "keep" for the states
\* that are neither COMPLETED nor FAILED
StatusTable(state) ==
    CASE state = "COMPLETED" -> "completed"
      [] state = "FAILED" -> "failed"
      [] OTHER -> "keep"

\* the order's status after a callback that met provider state `state`
\* follows the table: o the order, before and after the step
FollowsTable(state, o) ==
    IF StatusTable(state) = "keep"
    THEN \/ orders'[o].payment.status = "pending"
         \/ orders'[o].payment = orders[o].payment
    ELSE orders'[o].payment.status = StatusTable(state)

\* slot s ends a GET callback whose store write was accepted
GetCallbackWritten(s) ==
    /\ CallbackWriteStep(s)
    /\ slots[s].kind = "callback-get"
    /\ (slots[s].res \in {"COMPLETED", "FAILED"} => resp'.page # "payment-error")

(* C22: a callback that reconciles an order with the provider maps the     *)
(* provider's state by a fixed table: COMPLETED sets payment.status to     *)
(* 'completed', FAILED sets it to 'failed', every other state (PENDING, an *)
(* unknown string, no state) leaves the order pending or unchanged.        *)
C22_ProviderStatusTable ==
    [][ /\ \A s \in Slots :
              GetCallbackWritten(s) => FollowsTable(slots[s].res, slots[s].oid)
        /\ \A st \in {"PENDING", "EXPIRED", NoStr} :
              getCallbackPayment(NoPayment, st, now).status = "pending"
        /\ \A m \in Moids :
              AllCallback(m, TRUE)
                  => \A o \in OrderIds :
                        orders[o].payment.merchantOrderId = m
                            => FollowsTable(provider[m], o) ]_vars

----------------------------------------------------------------------------
\* the page of a resolved status
PageOf(status) ==
    CASE status = "completed" -> "payment-success"
      [] status = "failed" -> "payment-failed"
      [] OTHER -> "payment-pending"

(* C23: a callback that found its order, got the provider's answer and     *)
(* wrote the status it resolved redirects to the page of that status:      *)
(* completed to payment-success, failed to payment-failed, pending to      *)
(* payment-pending; payment-error is not used for such a callback.         *)
C23_RedirectByResolvedStatus ==
    [][\A s \in Slots :
          (CallbackWriteStep(s) /\ orders' # orders)
              => resp'.page = PageOf(orders'[slots[s].oid].payment.status)]_vars

----------------------------------------------------------------------------
\* the id begins with one of the prefixes the handler names
BeginsWithPrefix(id) == id.form \in {"TX_", "BBB_"}

(* C24: a callback whose id does not begin with an accepted prefix is      *)
(* rejected before any store lookup or gateway call: the handler takes no  *)
(* step past its format check (no findOrderByTransactionId, no             *)
(* checkPaymentStatus, no order write) for such an id.                     *)
C24_MalformedIdRejectedFirst ==
    [][\A id \in CallbackIds :
          ~BeginsWithPrefix(id)
              => \A s \in Slots, ok \in BOOLEAN, gw \in BOOLEAN :
                    ~GetCallbackCheck(s, id, ok, gw)]_vars

----------------------------------------------------------------------------
\* a step that leaves every order as it was, starts no status check and
\* answers with the redirect to the error page
NoOpFailure ==
    /\ orders' = orders
    /\ slots' = slots
    /\ confirmed' = confirmed
    /\ resp'.code = 302
    /\ resp'.page = "payment-error"

\* no stored order has merchantOrderId m in its payment
UnknownMoid(m) == \A o \in OrderIds : orders[o].payment.merchantOrderId # m

(* C25: a callback for an id that matches no stored order is a no-op       *)
(* failure: no order is created or modified, no status check is sent to    *)
(* the provider, and the request ends in the redirect to the error page.   *)
C25_UnknownIdIsNoOpFailure ==
    [][ /\ \A s \in Slots, id \in CallbackIds, gw \in BOOLEAN :
              (GetCallbackCheck(s, id, TRUE, gw) /\ findOrderByCallbackId(id) = {})
                  => NoOpFailure
        /\ \A s \in Slots, code \in CallbackCodes, tx \in TxIds :
              (PostCallbackFind(s, code, tx, TRUE) /\ findOrderByTransactionId(tx) = {})
                  => NoOpFailure
        /\ \A m \in Moids :
              (AllCallback(m, TRUE) /\ UnknownMoid(m)) => NoOpFailure ]_vars

----------------------------------------------------------------------------
\* the status check of the callback for id fails: the provider does not
\* answer (gwOk false), or answers with an error for the order found
StatusCheckFails(id, gwOk) ==
    \E o \in findOrderByCallbackId(id) :
        ~checkPaymentStatusAnswers(orders[o].payment.merchantOrderId, gwOk)

(* C26: when checkPaymentStatus fails during a callback (no answer, the    *)
(* provider's error answer, no credential), the handler catches the error: *)
(* every order is left as it was, no write follows, and the request is     *)
(* answered with the redirect to the error page.                           *)
C26_StatusCheckFailureCaught ==
    [][resp'.op = "callback-get" =>
       \A s \in Slots, id \in CallbackIds, gw \in BOOLEAN :
          (GetCallbackCheck(s, id, TRUE, gw) /\ StatusCheckFails(id, gw))
              => /\ orders' = orders
                 /\ slots' = slots
                 /\ resp'.code = 302
                 /\ resp'.page = "payment-error"]_vars

\* a callback found its order, its status check failed, the order is as
\* create-order left it
C26_CheckFailed ==
    /\ resp.op = "callback-get"
    /\ resp.page = "payment-error"
    /\ resp.log = "Status check failed"
    /\ \E o \in OrderIds : orders[o].payment.paymentUrl = "url" /\ StatusOf(o) = "pending"

----------------------------------------------------------------------------
\* the first failing check decides the answer: `missing` no correlation id
\* in the query, `found` the orders the lookup matches, storeOk the store
\* answers the lookup
ChecksInOrder(code, missing, storeOk, found) ==
    /\ missing => code = 400
    /\ (~missing /\ storeOk /\ found = {}) => code = 404
    /\ (~missing /\ storeOk /\ found # {} /\ \A o \in found : ~paymentCompleted(o))
          => code = 403

(* C27: signed-download applies its checks in a fixed order and the first  *)
(* failing one decides the answer: no correlation id in the query is a 400 *)
(* whatever the store holds, before any lookup; an id no order has is a    *)
(* 404; an order found and not completed is a 403.                         *)
C27_DownloadChecksInOrder ==
    [][ resp'.op = "signed-download" =>
        LET pid == resp'.pid
            cat == IF resp'.cat = "none" THEN "ok" ELSE resp'.cat
        IN  /\ \A tx \in DownloadTxIds, ok \in BOOLEAN :
                  SignedDownloadV2(pid, tx, cat, ok)
                      => ChecksInOrder(resp'.code, tx = NoTime, ok,
                                       findOrderByTransactionId(tx))
            /\ \A m \in DownloadMoids, ok \in BOOLEAN :
                  SignedDownloadV3(pid, m, cat, ok)
                      => ChecksInOrder(resp'.code, m = NoMoid, ok,
                                       findOrderByMerchantOrderId(m))
      ]_vars

----------------------------------------------------------------------------
(* C28: when the order is completed and holds the product, and the product *)
(* row has no file_name, signed-download answers with a server error (5xx) *)
(* and not with a client error (4xx), and mints no signed URL.             *)
C28_MissingFileIsServerError ==
    ( /\ SignedDownloadFound
      /\ StatusOf(resp.oid) = "completed"
      /\ HasItem(resp.oid, resp.pid)
      /\ resp.cat = "no-file" )
        => /\ resp.code >= 500
           /\ resp.code # 200

----------------------------------------------------------------------------
(* C29: once an order is in the store, no step of create-order, of a       *)
(* callback or of a download changes its items or its total amount or      *)
(* deletes it: a write to an existing order changes its payment only.      *)
C29_OnlyPaymentChanges ==
    [][ /\ Len(orders') >= Len(orders)
        /\ \A o \in OrderIds :
              [orders'[o] EXCEPT !.payment = orders[o].payment] = orders[o] ]_vars

\* a callback has completed an order, which still has its items
C29_PaymentWritten ==
    \E o \in OrderIds :
        /\ StatusOf(o) = "completed"
        /\ orders[o].items # <<>>
        /\ orders[o].total_amount = SumItems(orders[o].items)

----------------------------------------------------------------------------
(* Create-order and signed-download requests alone, the store taking       *)
(* MaxBurst orders                                                         *)

BurstNext ==
    \/ Tick
    \/ ResponseSent
    \/ \E s \in Slots, b \in Bodies, n \in Nonces, ok \in BOOLEAN :
          CreateOrderV2(s, b, n, ok, MaxBurst)
    \/ \E s \in Slots, b \in Bodies, ok \in BOOLEAN : CreateOrderV3(s, b, ok, MaxBurst)
    \/ \E s \in Slots, res \in {"ok", "error", "timeout", "invalid"}, arrived \in BOOLEAN :
          CreateOrderInitiate(s, res, arrived)
    \/ \E s \in Slots, ok \in BOOLEAN : CreateOrderFinish(s, ok)
    \/ \E pid \in Products, tx \in DownloadTxIds, cat \in CatalogCases, ok \in BOOLEAN :
          SignedDownloadV2(pid, tx, cat, ok)
    \/ \E pid \in Products, m \in DownloadMoids, cat \in CatalogCases, ok \in BOOLEAN :
          SignedDownloadV3(pid, m, cat, ok)

BurstSpec == Init /\ [][BurstNext]_vars

(* C30: correlation ids are unique in the store: no two distinct orders    *)
(* have the same payment.transactionId or the same merchantOrderId, also   *)
(* when two create-order requests are handled at the same clock value.     *)
C30_CorrelationIdsUnique ==
    \A o \in OrderIds, p \in OrderIds :
        o # p => /\ orders[o].payment.transactionId # orders[p].payment.transactionId
                 /\ OrderMoid(o) # OrderMoid(p)

----------------------------------------------------------------------------
(* The Order model: src/server/middleware/security.js, orderSchema *)

(* `doc` is an Order document in memory and `stored` its copy in the       *)
(* collection.  The clock `now` counts days here.                          *)

\* items of an order
MaxItems == 2

\* download links expire 30 days after they are generated
linkLifetime == 30

\* maxDownloads of a generated link
maxDownloads == 5

\* the enum of payment.status
PaymentStatuses == {"pending", "processing", "completed", "failed", "cancelled"}

\* the productIds of the items of an order
ItemLists == UNION {[1..n -> Products] : n \in 0..MaxItems}

\* a new order: the defaults of orderSchema and paymentDetailsSchema
NewOrder(items, t) ==
    [loaded |-> TRUE, items |-> items, status |-> "pending",
     payment |-> [status |-> "pending", transactionId |-> NoStr,
                  gatewayTransactionId |-> NoStr, paidAt |-> NoTime],
     downloadLinks |-> <<>>, updatedAt |-> t]

\* the argument of updatePaymentStatus; NoStr is a key it does not have
PaymentData(status, gatewayTransactionId) ==
    [status |-> status, gatewayTransactionId |-> gatewayTransactionId]

PaymentDatas ==
    {PaymentData(st, g) : st \in PaymentStatuses \cup {NoStr}, g \in {NoStr, "G1"}}

\* generateDownloadLinks: one link per item, replacing the links there were
generateDownloadLinks(d, t) ==
    [i \in 1..Len(d.items) |->
        [productId |-> d.items[i], expiresAt |-> t + linkLifetime,
         downloadCount |-> 0, maxDownloads |-> maxDownloads]]

\* this.payment = { ...this.payment.toObject(), ...paymentData }
mergePayment(payment, paymentData) ==
    [payment EXCEPT
        !.status = IF paymentData.status = NoStr THEN @ ELSE paymentData.status,
        !.gatewayTransactionId =
            IF paymentData.gatewayTransactionId = NoStr THEN @
            ELSE paymentData.gatewayTransactionId]

\* a completion that generates no links
updatePaymentStatusNoLinks(d, paymentData, t) ==
    LET merged == mergePayment(d.payment, paymentData)
    IN  IF paymentData.status = "completed"
        THEN [d EXCEPT !.payment = [merged EXCEPT !.paidAt = t],
                       !.status = "completed"]
        ELSE IF paymentData.status = "failed"
        THEN [d EXCEPT !.payment = merged, !.status = "cancelled"]
        ELSE [d EXCEPT !.payment = merged]

\* updatePaymentStatus, up to its call of save
updatePaymentStatus(d, paymentData, t) ==
    LET merged == mergePayment(d.payment, paymentData)
    IN  IF paymentData.status = "completed"
        THEN [d EXCEPT !.payment = [merged EXCEPT !.paidAt = t],
                       !.status = "completed",
                       !.downloadLinks = generateDownloadLinks(d, t)]
        ELSE IF paymentData.status = "failed"
        THEN [d EXCEPT !.payment = merged, !.status = "cancelled"]
        ELSE [d EXCEPT !.payment = merged]

\* order.updatePaymentStatus(paymentData): the document is changed, the
\* pre-save hook stamps updatedAt, and the save reaches the store or fails
UpdatePaymentStatus(paymentData, storeOk) ==
    /\ doc.loaded
    /\ doc' = [updatePaymentStatus(doc, paymentData, now) EXCEPT !.updatedAt = now]
    /\ stored' = IF storeOk THEN doc' ELSE stored
    /\ UNCHANGED <<now, svcvars, server, orders, provider, slots, resp, confirmed, granted>>

\* a pending order that has just been saved
OrderModelInit ==
    /\ production = FALSE
    /\ ServiceIdle
    /\ server = "v2"
    /\ now = 1
    /\ orders = <<>>
    /\ provider = [m \in Moids |-> "NONE"]
    /\ slots = [s \in Slots |-> IdleSlot]
    /\ resp = NoResp
    /\ confirmed = {}
    /\ granted = {}
    /\ doc \in {NewOrder(items, 1) : items \in ItemLists}
    /\ stored = doc

OrderModelNext ==
    \/ Tick
    \/ \E pd \in PaymentDatas, ok \in BOOLEAN : UpdatePaymentStatus(pd, ok)

OrderModelSpec == OrderModelInit /\ [][OrderModelNext]_vars

\* updatePaymentStatus is called with paymentData.status = status
UpdateWithStatus(status) ==
    \E pd \in PaymentDatas, ok \in BOOLEAN :
        /\ pd.status = status
        /\ UpdatePaymentStatus(pd, ok)

(* C31: applying the completed status to an order that is already          *)
(* completed regenerates nothing: the second                               *)
(* updatePaymentStatus({status:'completed'}) leaves downloadLinks, with    *)
(* each link's downloadCount and expiresAt, and payment.paidAt as the      *)
(* first call left them.                                                   *)
C31_CompletedTwiceRegeneratesNothing ==
    [][ (doc.loaded /\ doc.payment.status = "completed" /\ UpdateWithStatus("completed"))
            => /\ doc'.downloadLinks = doc.downloadLinks
               /\ doc'.payment.paidAt = doc.payment.paidAt
      ]_vars

(* C38: in the Order model, after any sequence of updatePaymentStatus      *)
(* calls on an order that starts pending, payment.status = 'completed'     *)
(* implies order.status = 'completed' and downloadLinks has exactly one    *)
(* entry per order item; a call with status 'failed' sets order.status to  *)
(* 'cancelled'.                                                            *)
C38_OrderModelConsistent ==
    /\ [](doc.loaded /\ doc.payment.status = "completed"
            => /\ doc.status = "completed"
               /\ Len(doc.downloadLinks) = Len(doc.items)
               /\ \A i \in 1..Len(doc.items) :
                     doc.downloadLinks[i].productId = doc.items[i])
    /\ [][ (doc.loaded /\ UpdateWithStatus("failed")) => doc'.status = "cancelled" ]_vars

\* an order of two items is completed after it had failed
C38_CompletedAfterFailed ==
    /\ doc.loaded
    /\ Len(doc.items) = MaxItems
    /\ doc.payment.status = "completed"
    /\ stored.status = "cancelled"

----------------------------------------------------------------------------
\* the fields of a payment record whose values differ
ChangedFields(old, new) == {f \in DOMAIN old : old[f] # new[f]}

\* the fields a reconciliation may write, per provider state
BranchFields(state) ==
    CASE state = "COMPLETED" ->
            {"status", "gatewayTransactionId", "paymentMethod", "paidAt", "lastCheckedAt"}
      [] state = "FAILED" -> {"status", "failureReason", "lastCheckedAt"}
      [] OTHER -> {"lastCheckedAt"}

(* C32: each reconciliation of the GET callback writes only the fields of  *)
(* its branch and always records lastCheckedAt: COMPLETED writes status,   *)
(* gatewayTransactionId, paymentMethod, paidAt and lastCheckedAt; FAILED   *)
(* writes status, failureReason and lastCheckedAt; any other state writes  *)
(* lastCheckedAt only; every other field of the payment record keeps its   *)
(* value.                                                                  *)
C32_BranchFieldsOnly ==
    [][\A s \in Slots :
          (GetCallbackWritten(s) /\ resp'.error # "callback-failed") =>
              LET o == slots[s].oid
              IN  /\ orders'[o].payment.lastCheckedAt = now
                  /\ ChangedFields(orders[o].payment, orders'[o].payment)
                        \subseteq BranchFields(slots[s].res)
      ]_vars

----------------------------------------------------------------------------
(* Merchant order ids: generateMerchantOrderId and validateMerchantOrderId *)

(* An id is modelled by its parts between the underscores: the prefix, the *)
(* product code, the number of digits of the phone suffix and of the       *)
(* timestamp, and the random number.  A part the id does not have is "",   *)
(* 0 or NoRandom.                                                          *)

\* Date.now() has 13 digits (from 2001 to 2286)
timestampDigits == 13

\* customerPhone.slice(-4) of a phone of digits: its last 4, or all of them
suffixDigits == 4

NoRandom == -1

phoneSuffix(phoneLen) == IF phoneLen < suffixDigits THEN phoneLen ELSE suffixDigits

\* v2: `ORDER_${productCode}_${phoneSuffix}_${timestamp}_${random}`
generateMerchantOrderIdV2(phoneLen, productCode, random) ==
    [prefix |-> "ORDER", productCode |-> productCode, phone |-> phoneSuffix(phoneLen),
     timestamp |-> timestampDigits, random |-> random]

\* v3: `ORDER_${productCode}_${customerPhone.slice(-4)}_${Date.now()}`
generateMerchantOrderIdV3(phoneLen, productCode) ==
    [prefix |-> "ORDER", productCode |-> productCode, phone |-> phoneSuffix(phoneLen),
     timestamp |-> timestampDigits, random |-> NoRandom]

\* the merchant order id of order o, as create-order composed it
merchantOrderIdOf(o) ==
    IF Len(OrderMoid(o)) = 2
    THEN generateMerchantOrderIdV2(orders[o].phoneLen, "BUNDLE", OrderMoid(o)[2])
    ELSE generateMerchantOrderIdV3(orders[o].phoneLen, "BUNDLE")

\* validateMerchantOrderId: TRUE when the middleware calls next(), FALSE when
\* it answers 400; the pattern is /^ORDER_[A-Z0-9]+_\d{4}_\d{13}_\d{4}$/
validateMerchantOrderId(id) ==
    /\ id.prefix = "ORDER"
    /\ id.productCode \in {"BUNDLE", "P1"}
    /\ id.phone = 4
    /\ id.timestamp = 13
    /\ id.random \in 0..9999

\* ids that lack one of the parts
IdsLackingAPart ==
    LET full == generateMerchantOrderIdV2(10, "BUNDLE", 1000)
    IN  {[full EXCEPT !.prefix = ""], [full EXCEPT !.productCode = ""],
         [full EXCEPT !.phone = 0], [full EXCEPT !.timestamp = 0],
         [full EXCEPT !.random = NoRandom]}

(* C33: every merchant order id produced by create-order is composed as    *)
(* ORDER_<product code>_<last 4 digits of phone>_<13-digit timestamp>_     *)
(* <4-digit nonce in 1000..9999> and is accepted by                        *)
(* validateMerchantOrderId; validateMerchantOrderId rejects every id that  *)
(* lacks one of these parts.                                               *)
C33_MerchantOrderIdComposition ==
    /\ \A o \in OrderIds :
          /\ merchantOrderIdOf(o).random \in 1000..9999
          /\ validateMerchantOrderId(merchantOrderIdOf(o))
    /\ \A id \in IdsLackingAPart : ~validateMerchantOrderId(id)

----------------------------------------------------------------------------
(* C34: initiatePayment never sends a payment-initiation request without a *)
(* credential: when getAccessToken yields no token (a failed exchange      *)
(* outside production) or throws, no request goes to the pay endpoint and  *)
(* the result is {success: false}.                                         *)
C34_NoPayRequestWithoutCredential ==
    \A c \in Calls :
        calls[c].op = "initiatePayment"
            => /\ calls[c].reqs > 0 => calls[c].tok \in {"cached", "fresh"}
               /\ calls[c].tok \in {"null", "thrown"}
                      => /\ calls[c].reqs = 0
                         /\ calls[c].pc = "done"
                         /\ calls[c].result = "failure"

\* outside production the exchange failed and initiatePayment sent nothing
C34_NullTokenRefused ==
    \E c \in Calls :
        /\ ~production
        /\ Finished(c, "initiatePayment")
        /\ calls[c].tok = "null"
        /\ calls[c].exch = 1
        /\ calls[c].reqs = 0

----------------------------------------------------------------------------
\* the exchange of call c fails in this step
ExchangeFailed(c) == calls[c].pc = "exchange" /\ calls'[c].pc = "done"

(* C37: a failed credential exchange leaves the cache untouched: in either *)
(* mode accessToken and tokenExpiry keep the values they had, and the next *)
(* getAccessToken call attempts a new exchange: the cache holds no token   *)
(* that a call would be given.                                             *)
C37_FailedExchangeLeavesCache ==
    [][\A c \in Calls :
          ExchangeFailed(c)
              => /\ accessToken' = accessToken
                 /\ tokenExpiry' = tokenExpiry
                 /\ ~cacheValid'
      ]_vars

----------------------------------------------------------------------------
CallbackOps == {"callback-get", "callback-post", "callback-all"}

\* a redirect or an error status
AnswerCodes == {302, 400, 404, 500}

(* C35: every request to a callback endpoint ends with one HTTP response,  *)
(* a redirect or an error status, whatever the order lookup, the gateway's *)
(* verification call and the store write do: no handler ends without       *)
(* having answered, and a handler that holds a request in flight answers   *)
(* it in the step that ends it.                                            *)
C35_CallbackAlwaysAnswered ==
    /\ [](resp.op \in CallbackOps => resp.code \in AnswerCodes)
    /\ [][\A s \in Slots :
             (slots[s].kind \in CallbackOps /\ slots'[s].kind = "idle")
                 => /\ resp = NoResp
                    /\ resp'.op = slots[s].kind
                    /\ resp'.code \in AnswerCodes ]_vars

----------------------------------------------------------------------------
(* C36: reconciliation preserves the correlation keys of an order: after   *)
(* any sequence of callbacks, with any provider outcomes,                  *)
(* payment.transactionId and payment.merchantOrderId are the values        *)
(* assigned at creation, so the order is still found by                    *)
(* findOrderByTransactionId and by its merchant order id.                  *)
C36_CorrelationKeysPreserved ==
    [][\A o \in OrderIds :
          /\ orders'[o].payment.transactionId = orders[o].payment.transactionId
          /\ orders'[o].payment.merchantOrderId = orders[o].payment.merchantOrderId
      ]_vars

=============================================================================
